---- MODULE Spec2Model ----
(***************************************************************************)
(* Model of src/app.py: a Streamlit chat front-end for a remote            *)
(* generative model.  Every user interaction re-runs the script top to     *)
(* bottom; st.session_state (chat_history, file_context) and the state of  *)
(* the file_uploader widget survive between runs.                          *)
(*                                                                         *)
(* Text is a sequence of tokens, a file name a sequence of one-character   *)
(* strings.  A file context / content part is a record [kind, val] with    *)
(* kind "none" (Python None), "text" or "image".                           *)
(***************************************************************************)
EXTENDS Integers, Sequences, FiniteSets, TLC

VARIABLES
    api_key,            \* os.getenv("GOOGLE_API_KEY"): "absent", "empty" or "set"
    configure_raises,   \* whether genai.configure / GenerativeModel raises
    uploaded_file,      \* the file held by the st.file_uploader widget (NoFile if none)
    has_chat_history,   \* "chat_history" in st.session_state
    chat_history,       \* st.session_state.chat_history
    has_file_context,   \* "file_context" in st.session_state
    file_context,       \* st.session_state.file_context
    pc,                 \* "idle", or "awaiting" while chat.send_message blocks
    errors,             \* what the current script run reported (st.error / uncaught exception)
    extractor,          \* the parsing library the last run of process_uploaded_file invoked
    user_input,         \* the text of the last submitted chat message
    gemini_history,     \* the history built by the last chat turn
    content_to_send,    \* the request content built by the last chat turn
    pre_history,        \* the transcript as the last chat turn found it
    pre_context,        \* file_context as the last chat turn found it (after the sidebar block)
    calls,              \* chat.send_message calls issued by the last chat turn
    outcome,            \* how the last chat turn ended: "none", "pending", "ok", "error", "uncaught"
    consumed,           \* send_message was called with the context of the file the widget holds
    stale               \* the last chat turn started with consumed = TRUE (no new upload since)

vars == <<api_key, configure_raises, uploaded_file, has_chat_history, chat_history,
          has_file_context, file_context, pc, errors, extractor, user_input,
          gemini_history, content_to_send, pre_history, pre_context, calls,
          outcome, consumed, stale>>

session == <<has_chat_history, chat_history, has_file_context, file_context>>

turn == <<user_input, gemini_history, content_to_send, pre_history, pre_context,
          calls, outcome, stale>>

----------------------------------------------------------------------------
(* Bounds and input domains *)

MaxTurns == 2

UserInputs == {<<"q1">>, <<"q2">>}
Replies == {<<"r1">>}
RemoteErrors == {<<"e1">>}

Units == {<<>>, <<<<"t1">>>>, <<<<"t1">>, <<"t2">>>>}

Stems == {<<>>, <<"a">>, <<".">>, <<".", "a">>, <<"a", ".", "b">>,
          <<"a", ".", "p", "d", "f">>}

ExtForms == {<<>>, <<".">>, <<"p", "d", "f">>,
             <<".", "j", "p", "g">>, <<".", "J", "P", "G">>,
             <<".", "j", "p", "e", "g">>, <<".", "J", "p", "E", "g">>,
             <<".", "p", "n", "g">>, <<".", "P", "N", "G">>,
             <<".", "p", "d", "f">>, <<".", "P", "d", "F">>,
             <<".", "d", "o", "c", "x">>, <<".", "D", "O", "C", "X">>,
             <<".", "p", "p", "t", "x">>, <<".", "x", "l", "s", "x">>,
             <<".", "X", "L", "S", "X">>,
             <<".", "t", "x", "t">>, <<".", "d", "o", "c">>, <<".", "g", "i", "f">>,
             <<".", "p", "d", "f", "x">>}

Names == {s \o e : s \in Stems, e \in ExtForms}

AllFiles == [name : Names, corrupt : BOOLEAN, units : Units]

NoFile == [name |-> <<>>, corrupt |-> FALSE, units |-> <<>>]

PngName == <<"a", ".", "P", "N", "G">>
PdfName == <<"a", ".", "p", "d", "f">>
DocxName == <<"a", ".", "d", "o", "c", "x">>
XlsxName == <<"a", ".", "x", "l", "s", "x">>
TxtName == <<"a", ".", "t", "x", "t">>

SessionFiles ==
    { [name |-> PngName, corrupt |-> FALSE, units |-> <<<<"t1">>>>],
      [name |-> PdfName, corrupt |-> FALSE, units |-> <<>>],
      [name |-> PdfName, corrupt |-> TRUE, units |-> <<<<"t1">>>>],
      [name |-> DocxName, corrupt |-> FALSE, units |-> <<<<"t1">>>>],
      [name |-> XlsxName, corrupt |-> FALSE, units |-> <<>>],
      [name |-> TxtName, corrupt |-> FALSE, units |-> <<<<"t1">>>>] }

----------------------------------------------------------------------------
(* Text helpers *)

None == [kind |-> "none", val |-> <<>>]
TextOf(t) == [kind |-> "text", val |-> t]
ImageOf(h) == [kind |-> "image", val |-> h]

RECURSIVE ConcatAll(_)
ConcatAll(ss) == IF ss = <<>> THEN <<>> ELSE Head(ss) \o ConcatAll(Tail(ss))

RECURSIVE Join(_, _)
Join(ss, sep) ==
    IF ss = <<>> THEN <<>>
    ELSE IF Len(ss) = 1 THEN Head(ss)
    ELSE Head(ss) \o sep \o Join(Tail(ss), sep)

Contains(t, e) ==
    \E i \in 1..(Len(t) - Len(e) + 1) : SubSeq(t, i, i + Len(e) - 1) = e

IsPrefix(s, t) == Len(s) <= Len(t) /\ SubSeq(t, 1, Len(s)) = s

----------------------------------------------------------------------------
(* process_uploaded_file *)

UpperToLower == [J |-> "j", P |-> "p", G |-> "g", E |-> "e", N |-> "n", D |-> "d",
                 F |-> "f", O |-> "o", C |-> "c", X |-> "x", L |-> "l", S |-> "s",
                 T |-> "t"]

LowerKeepsCase(s) == s

Lower(s) == [i \in 1..Len(s) |->
                IF s[i] \in DOMAIN UpperToLower THEN UpperToLower[s[i]] ELSE s[i]]

RFind(p, ch) ==
    LET hits == {i \in 1..Len(p) : p[i] = ch}
    IN  IF hits = {} THEN 0 ELSE CHOOSE i \in hits : \A j \in hits : j <= i

SplitExt(p) ==
    LET sepIndex == RFind(p, "/")
        dotIndex == RFind(p, ".")
    IN  IF dotIndex > sepIndex
           /\ \E i \in (sepIndex + 1)..(dotIndex - 1) : p[i] # "."
        THEN SubSeq(p, dotIndex, Len(p))
        ELSE <<>>

FileExtension(name) == Lower(SplitExt(name))

ImageExts == {<<".", "j", "p", "g">>, <<".", "j", "p", "e", "g">>, <<".", "p", "n", "g">>}
PdfExt == <<".", "p", "d", "f">>
DocxExt == <<".", "d", "o", "c", "x">>
PptxExt == <<".", "p", "p", "t", "x">>
XlsxExt == <<".", "x", "l", "s", "x">>
TextExts == {PdfExt, DocxExt, PptxExt, XlsxExt}

ExtractorFor(ext) ==
    IF ext \in ImageExts THEN "PIL"
    ELSE IF ext = PdfExt THEN "pypdf"
    ELSE IF ext = DocxExt THEN "docx"
    ELSE IF ext = PptxExt THEN "pptx"
    ELSE IF ext = XlsxExt THEN "openpyxl"
    ELSE "none"

OpenImage(f) == ImageOf(<<"Image">> \o ConcatAll(f.units))

PdfText(f) == ConcatAll(f.units)

DocxText(f) == Join(f.units, <<"\n">>)

PptxText(f) == ConcatAll([i \in 1..Len(f.units) |-> f.units[i] \o <<"\n">>])

NoneCell == "None"

CellStr(cell) == IF cell = NoneCell THEN <<>> ELSE <<cell>>

XlsxRow(row) == Join([i \in 1..Len(row) |-> CellStr(row[i])], <<" | ">>) \o <<"\n">>

XlsxText(f) ==
    <<"--- Sheet: ", "Sheet1", " ---\n">>
        \o ConcatAll([i \in 1..Len(f.units) |-> XlsxRow(f.units[i])])

Extracted(f) ==
    LET ext == FileExtension(f.name)
    IN  IF ext \in ImageExts THEN OpenImage(f)
        ELSE IF ext = PdfExt THEN TextOf(PdfText(f))
        ELSE IF ext = DocxExt THEN TextOf(DocxText(f))
        ELSE IF ext = PptxExt THEN TextOf(PptxText(f))
        ELSE IF ext = XlsxExt THEN TextOf(XlsxText(f))
        ELSE None

ExtractRaises(f) == f.corrupt /\ ExtractorFor(FileExtension(f.name)) # "none"

process_uploaded_file(f) == IF ExtractRaises(f) THEN None ELSE Extracted(f)

----------------------------------------------------------------------------
(* API configuration block *)

KeyOkNoCheck == ~configure_raises

KeyOk == api_key = "set" /\ ~configure_raises

StartupError == IF api_key # "set" THEN "no_api_key" ELSE "configure"

\* st.error + st.stop(): the run ends before the sidebar, the session-state
\* initialisation and the chat block.
Stopped ==
    /\ errors' = {StartupError}
    /\ UNCHANGED <<api_key, configure_raises, uploaded_file, session, pc, extractor,
                   turn, consumed>>

----------------------------------------------------------------------------
(* Sidebar upload block and session-state initialisation *)

WidgetTypes == {<<"p", "n", "g">>, <<"j", "p", "g">>, <<"j", "p", "e", "g">>,
                <<"p", "d", "f">>, <<"d", "o", "c", "x">>, <<"x", "l", "s", "x">>,
                <<"p", "p", "t", "x">>}

WidgetAccepts(f) ==
    LET ext == FileExtension(f.name)
    IN  ext # <<>> /\ Tail(ext) \in WidgetTypes

StoredContext == IF has_file_context THEN file_context ELSE None

SidebarContextKeepsOld(f) ==
    IF f = NoFile \/ process_uploaded_file(f) = None
    THEN StoredContext
    ELSE process_uploaded_file(f)

\* file_context after lines 83-95 when the widget holds f
SidebarContext(f) ==
    IF f = NoFile THEN StoredContext ELSE process_uploaded_file(f)

SidebarErrors(f) == IF f # NoFile /\ ExtractRaises(f) THEN {"extract"} ELSE {}

SidebarExtractor(f) ==
    IF f = NoFile THEN "none" ELSE ExtractorFor(FileExtension(f.name))

StoredHistory == IF has_chat_history THEN chat_history ELSE <<>>

\* A script run with no chat input, the widget holding f.
RunNoChat(f) ==
    /\ uploaded_file' = f
    /\ file_context' = SidebarContext(f)
    /\ has_file_context' = TRUE
    /\ chat_history' = StoredHistory
    /\ has_chat_history' = TRUE
    /\ errors' = SidebarErrors(f)
    /\ extractor' = SidebarExtractor(f)
    /\ UNCHANGED <<api_key, configure_raises, pc, turn>>

Rerun ==
    /\ pc = "idle"
    /\ IF KeyOk THEN RunNoChat(uploaded_file) /\ UNCHANGED consumed ELSE Stopped

Upload(f) ==
    /\ pc = "idle"
    /\ WidgetAccepts(f)
    /\ IF KeyOk THEN RunNoChat(f) /\ consumed' = FALSE ELSE Stopped

RemoveFile ==
    /\ pc = "idle"
    /\ uploaded_file # NoFile
    /\ IF KeyOk THEN RunNoChat(NoFile) /\ consumed' = FALSE ELSE Stopped

----------------------------------------------------------------------------
(* Chat input and response logic *)

SystemPrompt == TextOf(<<"You are an expert assistant. ...">>)
ContextHeader == TextOf(<<"CONTEXT FROM UPLOADED FILE:">>)
QuestionLabel == TextOf(<<"USER'S CURRENT QUESTION:">>)

\* Python truthiness of st.session_state.file_context
Truthy(ctx) == ctx.kind = "image" \/ (ctx.kind = "text" /\ ctx.val # <<>>)

UserMessage(text, ctx) ==
    [role |-> "user", content |-> text,
     image |-> IF ctx.kind = "image" THEN ctx.val ELSE <<>>]

AssistantMessage(text) == [role |-> "assistant", content |-> text, image |-> <<>>]

GeminiHistory(hist) ==
    [i \in 1..Len(hist) |->
        [role |-> IF hist[i].role = "assistant" THEN "model" ELSE "user",
         text |-> hist[i].content]]

ContentToSendHeaderOnly(ctx, text) ==
    <<SystemPrompt>>
        \o (IF Truthy(ctx) THEN <<ContextHeader>> ELSE <<>>)
        \o <<QuestionLabel, TextOf(text)>>

ContentToSend(ctx, text) ==
    <<SystemPrompt>>
        \o (IF Truthy(ctx) THEN <<ContextHeader, ctx>> ELSE <<>>)
        \o <<QuestionLabel, TextOf(text)>>

ContextAfterSend(ctx) == IF Truthy(ctx) THEN None ELSE ctx

ErrorReplyWithoutText(e) == <<"Sorry, an error occurred: ">>

ErrorReply(e) == <<"Sorry, an error occurred: ">> \o e

WithReplyOverwritesLast(hist, text) ==
    [hist EXCEPT ![Len(hist)] = AssistantMessage(text)]

WithReply(hist, text) == Append(hist, AssistantMessage(text))

HasContext(content) == \E i \in 1..Len(content) : content[i] = ContextHeader

\* Lines 76-143: the run triggered by submitting text, up to and including
\* model.start_chat; started says whether start_chat returned.
ChatTurn(text, started) ==
    LET ctx == SidebarContext(uploaded_file)
        hist == Append(StoredHistory, UserMessage(text, ctx))
    IN  /\ chat_history' = hist
        /\ has_chat_history' = TRUE
        /\ file_context' = ContextAfterSend(ctx)
        /\ has_file_context' = TRUE
        /\ extractor' = SidebarExtractor(uploaded_file)
        /\ user_input' = text
        /\ gemini_history' = GeminiHistory(hist)
        /\ content_to_send' = ContentToSend(ctx, text)
        /\ pre_history' = StoredHistory
        /\ pre_context' = ctx
        /\ stale' = consumed
        /\ consumed' = (consumed \/ (started /\ uploaded_file # NoFile /\ Truthy(ctx)))
        /\ IF started
           THEN /\ pc' = "awaiting"
                /\ calls' = 1
                /\ outcome' = "pending"
                /\ errors' = SidebarErrors(uploaded_file)
           ELSE /\ pc' = "idle"
                /\ calls' = 0
                /\ outcome' = "uncaught"
                /\ errors' = SidebarErrors(uploaded_file) \cup {"uncaught"}
        /\ UNCHANGED <<api_key, configure_raises, uploaded_file>>

CanSubmit == pc = "idle" /\ Len(StoredHistory) + 2 <= 2 * MaxTurns

SubmitChat(text) ==
    /\ CanSubmit
    /\ IF KeyOk THEN ChatTurn(text, TRUE) ELSE Stopped

SubmitChatStartRaises(text) ==
    /\ CanSubmit
    /\ IF KeyOk THEN ChatTurn(text, FALSE) ELSE Stopped

\* Lines 145-150: send_message returned and response.text is reply.
SendMessageReturns(reply) ==
    /\ pc = "awaiting"
    /\ chat_history' = WithReply(chat_history, reply)
    /\ pc' = "idle"
    /\ outcome' = "ok"
    /\ UNCHANGED <<api_key, configure_raises, uploaded_file, has_chat_history,
                   has_file_context, file_context, errors, extractor, user_input,
                   gemini_history, content_to_send, pre_history, pre_context,
                   calls, consumed, stale>>

\* Lines 151-154: send_message (or response.text) raised e.
SendMessageRaises(e) ==
    /\ pc = "awaiting"
    /\ chat_history' = WithReply(chat_history, ErrorReply(e))
    /\ pc' = "idle"
    /\ outcome' = "error"
    /\ errors' = errors \cup {"remote"}
    /\ UNCHANGED <<api_key, configure_raises, uploaded_file, has_chat_history,
                   has_file_context, file_context, extractor, user_input,
                   gemini_history, content_to_send, pre_history, pre_context,
                   calls, consumed, stale>>

----------------------------------------------------------------------------
(* The session *)

Init ==
    /\ api_key \in {"absent", "empty", "set"}
    /\ configure_raises \in BOOLEAN
    /\ uploaded_file = NoFile
    /\ has_chat_history = FALSE
    /\ chat_history = <<>>
    /\ has_file_context = FALSE
    /\ file_context = None
    /\ pc = "idle"
    /\ errors = {}
    /\ extractor = "none"
    /\ user_input = <<>>
    /\ gemini_history = <<>>
    /\ content_to_send = <<>>
    /\ pre_history = <<>>
    /\ pre_context = None
    /\ calls = 0
    /\ outcome = "none"
    /\ consumed = FALSE
    /\ stale = FALSE

Next ==
    \/ Rerun
    \/ \E f \in SessionFiles : Upload(f)
    \/ RemoveFile
    \/ \E text \in UserInputs : SubmitChat(text)
    \/ \E text \in UserInputs : SubmitChatStartRaises(text)
    \/ \E reply \in Replies : SendMessageReturns(reply)
    \/ \E e \in RemoteErrors : SendMessageRaises(e)

Spec == Init /\ [][Next]_vars

----------------------------------------------------------------------------
(* process_uploaded_file as a function of the file alone *)

InitExtract ==
    /\ api_key = "set"
    /\ configure_raises = FALSE
    /\ uploaded_file \in AllFiles
    /\ has_chat_history = FALSE
    /\ chat_history = <<>>
    /\ has_file_context = FALSE
    /\ file_context = None
    /\ pc = "idle"
    /\ errors = {}
    /\ extractor = "unset"
    /\ user_input = <<>>
    /\ gemini_history = <<>>
    /\ content_to_send = <<>>
    /\ pre_history = <<>>
    /\ pre_context = None
    /\ calls = 0
    /\ outcome = "none"
    /\ consumed = FALSE
    /\ stale = FALSE

\* file_content = process_uploaded_file(uploaded_file); file_context = file_content
ProcessFile ==
    /\ extractor = "unset"
    /\ file_context' = process_uploaded_file(uploaded_file)
    /\ has_file_context' = TRUE
    /\ errors' = SidebarErrors(uploaded_file)
    /\ extractor' = SidebarExtractor(uploaded_file)
    /\ UNCHANGED <<api_key, configure_raises, uploaded_file, has_chat_history,
                   chat_history, pc, turn, consumed>>

NextExtract == ProcessFile

SpecExtract == InitExtract /\ [][NextExtract]_vars

----------------------------------------------------------------------------
(* Vocabulary of the properties *)

\* A context that carries something: an image, or text that is not empty.
NonEmptyContext(ctx) == ctx.kind = "image" \/ (ctx.kind = "text" /\ ctx.val # <<>>)

\* The request content for a turn whose context counts as present iff present.
RequestFor(present, ctx, text) ==
    IF present
    THEN <<SystemPrompt, ContextHeader, ctx, QuestionLabel, TextOf(text)>>
    ELSE <<SystemPrompt, QuestionLabel, TextOf(text)>>

\* A step that is a script run containing a chat turn / containing none.
ChatRunStep == pc = "idle" /\ (pc' = "awaiting" \/ "uncaught" \in errors')
OtherRunStep == pc = "idle" /\ pc' = "idle" /\ "uncaught" \notin errors'

LastTurn(hist) == hist[Len(hist)]

UpperOf == [j |-> "J", p |-> "P", g |-> "G", e |-> "E", n |-> "N", d |-> "D",
            f |-> "F", o |-> "O", c |-> "C", x |-> "X", l |-> "L", s |-> "S",
            t |-> "T"]

Fold(ch) == IF ch \in DOMAIN UpperOf THEN UpperOf[ch] ELSE ch

SameIgnoringCase(a, b) ==
    Len(a) = Len(b) /\ \A i \in 1..Len(a) : Fold(a[i]) = Fold(b[i])

EndsWith(name, ext) ==
    Len(name) >= Len(ext)
    /\ SameIgnoringCase(SubSeq(name, Len(name) - Len(ext) + 1, Len(name)), ext)

\* The class of a name by its literal ending.
SuffixClass(name) ==
    IF \E e \in ImageExts : EndsWith(name, e) THEN "image"
    ELSE IF \E e \in TextExts : EndsWith(name, e) THEN "text"
    ELSE "none"

\* The extension of a name: from its last dot on, provided a character other
\* than a dot comes before that dot.
ExtensionOf(name) ==
    LET dots == {i \in 1..Len(name) : name[i] = "."}
    IN  IF dots = {} THEN <<>>
        ELSE LET last == CHOOSE i \in dots : \A j \in dots : j <= i
             IN  IF \A i \in 1..(last - 1) : name[i] = "." THEN <<>>
                 ELSE SubSeq(name, last, Len(name))

ExtensionClass(name) ==
    IF \E e \in ImageExts : SameIgnoringCase(ExtensionOf(name), e) THEN "image"
    ELSE IF \E e \in TextExts : SameIgnoringCase(ExtensionOf(name), e) THEN "text"
    ELSE "none"

DispatchedBy(class) ==
    /\ class = "none" =>
          file_context = None /\ extractor = "none" /\ errors = {}
    /\ (class # "none" /\ ~uploaded_file.corrupt) => file_context.kind = class

----------------------------------------------------------------------------
(* Properties *)

\* C1: a chat turn submitted after an earlier turn consumed the context of
\* the file the widget holds, with no new upload in between, builds a request
\* with no context header and no file payload.
C1_ContextReadOnce == stale => ~HasContext(content_to_send)

\* C2: the history handed to start_chat is the transcript as it was before
\* this turn's user Turn was appended, assistant mapped to "model", user to
\* "user", text only; the turn just appended is not in it.
C2_HistoryExcludesCurrentTurn ==
    outcome # "none" =>
        /\ Len(gemini_history) = Len(pre_history)
        /\ \A i \in 1..Len(pre_history) :
              /\ gemini_history[i].text = pre_history[i].content
              /\ gemini_history[i].role =
                    (IF pre_history[i].role = "assistant" THEN "model" ELSE "user")

\* C3: whenever the script is idle the transcript has user Turns at the even
\* 0-based indexes and assistant Turns at the odd ones.
C3_RolesAlternate ==
    pc = "idle" =>
        \A i \in 1..Len(chat_history) :
            chat_history[i].role = (IF i % 2 = 1 THEN "user" ELSE "assistant")

\* C4: when send_message raises, the turn ends idle, the transcript is the
\* earlier transcript (its last Turn the user Turn of this turn) plus one
\* assistant Turn whose content contains the error text, and file_context is
\* left as the request construction left it: None whenever a context was read.
C4_RemoteFailureRecorded ==
    [][ (pc = "awaiting" /\ outcome' = "error") =>
            /\ pc' = "idle"
            /\ Len(chat_history') = Len(chat_history) + 1
            /\ SubSeq(chat_history', 1, Len(chat_history)) = chat_history
            /\ LastTurn(chat_history) = UserMessage(user_input, pre_context)
            /\ LastTurn(chat_history').role = "assistant"
            /\ \E e \in RemoteErrors : Contains(LastTurn(chat_history').content, e)
            /\ "remote" \in errors' /\ "uncaught" \notin errors'
            /\ file_context' = file_context
            /\ NonEmptyContext(pre_context) => file_context' = None
            /\ ~NonEmptyContext(pre_context) => file_context' = pre_context ]_vars

C4_Witness ==
    /\ outcome = "error" /\ pc = "idle"
    /\ pre_context.kind = "text" /\ NonEmptyContext(pre_context)
    /\ file_context = None
    /\ LastTurn(chat_history).role = "assistant"

\* C5 as stated: the request content is [system instruction, header, payload,
\* question label, user text], header and payload present iff file_context is
\* not None at the start of the turn, empty extracted text included.
C5_ContextIffNotNone ==
    outcome # "none" =>
        content_to_send = RequestFor(pre_context.kind # "none", pre_context, user_input)

\* C5 amended: header and payload are present iff file_context at the start of
\* the turn is an image or non-empty text; the payload is that value itself.
C5_ContextIffNonEmpty ==
    outcome # "none" =>
        content_to_send = RequestFor(NonEmptyContext(pre_context), pre_context, user_input)

C5_Witness ==
    /\ outcome = "pending"
    /\ pre_context.kind = "image"
    /\ Len(content_to_send) = 5
    /\ content_to_send[3] = pre_context

\* C6: every submitted message issues exactly one send_message call and, once
\* the call has returned or raised, ends idle with exactly one assistant Turn
\* appended and no exception escaping, also when start_chat fails.
C6_OneCallOneReply ==
    (pc = "idle" /\ outcome # "none") =>
        /\ outcome \in {"ok", "error"}
        /\ calls = 1
        /\ Len(chat_history) = Len(pre_history) + 2
        /\ LastTurn(chat_history).role = "assistant"

\* C7: a run in which extraction raises reports the error and leaves
\* file_context None whatever it held; without a chat turn the transcript is
\* unchanged, with one the turn goes on and its request has no file context.
C7_ExtractionFailureContained ==
    [][ (pc = "idle" /\ "extract" \in errors') =>
            /\ has_file_context' /\ file_context' = None
            /\ OtherRunStep => chat_history' = chat_history
            /\ ChatRunStep =>
                  /\ chat_history' = Append(chat_history, UserMessage(user_input', None))
                  /\ content_to_send' = RequestFor(FALSE, None, user_input') ]_vars

C7_Witness ==
    /\ "extract" \in errors
    /\ outcome = "ok" /\ pc = "idle"
    /\ uploaded_file.corrupt
    /\ Len(content_to_send) = 3

\* C8 as stated: every name ending (in any letter case) in .jpg/.jpeg/.png
\* yields image content, in .pdf/.docx/.pptx/.xlsx text content, any other
\* name absent content with no extractor invoked and nothing raised.
C8_DispatchOnSuffix ==
    extractor # "unset" => DispatchedBy(SuffixClass(uploaded_file.name))

\* C8 amended: the same, by the name's extension: the part from the last dot
\* on when a character other than a dot precedes that dot, else none.
C8_DispatchOnExtension ==
    extractor # "unset" => DispatchedBy(ExtensionClass(uploaded_file.name))

C8_Witness ==
    /\ extractor = "PIL"
    /\ uploaded_file.name = <<"a", ".", "J", "p", "E", "g">>
    /\ file_context.kind = "image"

\* C9: every step leaves the old transcript a prefix of the new one; a run
\* without a chat turn leaves it unchanged; a completed chat turn has extended
\* the transcript it found by its user Turn followed by one assistant Turn.
C9_TranscriptAppendOnly ==
    [][ /\ IsPrefix(chat_history, chat_history')
        /\ OtherRunStep => chat_history' = chat_history
        /\ (pc = "awaiting" /\ pc' = "idle") =>
              /\ Len(chat_history') = Len(pre_history) + 2
              /\ SubSeq(chat_history', 1, Len(pre_history)) = pre_history
              /\ chat_history'[Len(pre_history) + 1] = UserMessage(user_input, pre_context)
              /\ LastTurn(chat_history').role = "assistant" ]_vars

C9_Witness ==
    /\ pc = "idle"
    /\ Len(chat_history) = 4
    /\ outcome \in {"ok", "error"}
    /\ uploaded_file # NoFile

\* C10: with GOOGLE_API_KEY absent or empty every run stops at startup: no
\* file is processed, no remote call is made, and chat_history and
\* file_context are never created.
C10_NoKeyNoSession ==
    api_key # "set" =>
        /\ ~has_chat_history /\ chat_history = <<>>
        /\ ~has_file_context /\ file_context = None
        /\ uploaded_file = NoFile /\ extractor = "none"
        /\ pc = "idle" /\ calls = 0 /\ outcome = "none"
        /\ errors \subseteq {"no_api_key"}

C10_Witness == api_key = "empty" /\ errors = {"no_api_key"}

====
